---- MODULE Spec2Model ----
(***************************************************************************)
(* Model of the guardrail engine (src/src/utils/guardrails.py), the LLM    *)
(* client (src/src/core/llm_client.py) and the chat service                *)
(* (src/src/services/chat_service.py).                                     *)
(*                                                                         *)
(* A Python string is modelled as a sequence of tokens.  A token is either *)
(* a run of whitespace or a chunk of text without leading or trailing      *)
(* whitespace; the string is the concatenation of its tokens.  The fixed   *)
(* literals of the source (system prompt, redirect note, ...) are single   *)
(* tokens whose words are listed in SplitWords and ReWords.  Python's None *)
(* is the reserved one-token sequence None.                                *)
(***************************************************************************)
EXTENDS Integers, Sequences, FiniteSets, Bags, TLC

\* ------------------------------------------------------------------------
\* Tokens
\* ------------------------------------------------------------------------
None == << "<None>" >>

SP == " "
NL == "<nl>"
NL2 == "<nl><nl>"
INDENT == "<nl><8 spaces>"
Spaces5001 == "<5001 spaces>"
SpaceToks == {SP, NL, NL2, INDENT, Spaces5001}

IsSpace(t) == t \in SpaceToks

NoteTok == "[Note: I focus on audio analysis topics. If you have questions about spectrograms, audio features, or sound analysis, I'd be happy to help!]"
NudgeTok == "(Please provide an audio analysis perspective if possible.)"
SysBodyRaw == "<system_context lines, indented>"
SysBodyClean == "<system_context lines, single-spaced>"
CtxHeaderTok == "Current audio analysis context:"
DurationTok == "Duration: 1.50 seconds"
TempoTok == "Tempo: 120.0 BPM"
CentroidTok == "Spectral Centroid: 1500.0 Hz"
EmailRemoved == "[EMAIL_REMOVED]"
PhoneRemoved == "[PHONE_REMOVED]"
UrlRemoved == "[URL_REMOVED]"
Blob5001 == "<x repeated 5001 times>"
Pad193 == "<x repeated 193 times>"
Ellipsis == "..."
CutTok == "<cut>"
UserLabel == "User:"
AssistantLabel == "Assistant:"
SummaryIntroTok == "Please provide a brief summary of our conversation about audio analysis. Here's our conversation:\\n\\n"
SummaryOutroTok == "\\n\\nFocus on the key topics discussed and main insights shared."
NoSummaryTok == "Could not generate summary."
ExchangeLabel(i) == "Exchange " \o ToString(i) \o ":"
ExchangeLabels == {ExchangeLabel(i) : i \in 1..20}
EmailToks == {"a@b.com", "u1@b.com", "u2@b.com", "u3@b.com", "u4@b.com",
              "u5@b.com", "u6@b.com", "u7@b.com", "u8@b.com", "u9@b.com",
              "u10@b.com", "u11@b.com"}
PhoneToks == {"555-123-4567"}
\* URLs: the text after "://" either starts with an allow-listed name or not
UrlToksAllowedPrefix == {"https://github.com/librosa", "https://github.evil.com/x"}
UrlToksOther == {"https://evil.com/x", "https://en.wikipedia.org/wiki/Sound"}

\* the host of a URL: the text between "://" and the next "/"
UrlHost(t) ==
    CASE t = "https://github.com/librosa" -> "github.com"
      [] t = "https://github.evil.com/x" -> "github.evil.com"
      [] t = "https://evil.com/x" -> "evil.com"
      [] t = "https://en.wikipedia.org/wiki/Sound" -> "en.wikipedia.org"

Tokens ==
    SpaceToks \cup EmailToks \cup PhoneToks
    \cup UrlToksAllowedPrefix \cup UrlToksOther \cup ExchangeLabels
    \cup {NoteTok, NudgeTok, SysBodyRaw, SysBodyClean, CtxHeaderTok, DurationTok,
          TempoTok, CentroidTok, EmailRemoved, PhoneRemoved, UrlRemoved, Blob5001,
          Pad193, Ellipsis, CutTok, UserLabel, AssistantLabel, SummaryIntroTok,
          SummaryOutroTok, NoSummaryTok}
    \cup {"hello", "audio", "Audio", "music", "weather", "kill", "KILL",
          "wow!!!", "wow!", "personal", "information", "ok", "thank", "you",
          "yes", "no", "thanks"}

\* len(token)
CharLen ==
  [t \in Tokens |->
    CASE t = SP -> 1
      [] t = NL -> 1
      [] t = NL2 -> 2
      [] t = INDENT -> 9
      [] t = Spaces5001 -> 5001
      [] t = NoteTok -> 140
      [] t = NudgeTok -> 59
      [] t = SysBodyRaw -> 368
      [] t = SysBodyClean -> 319
      [] t = CtxHeaderTok -> 31
      [] t = DurationTok -> 22
      [] t = TempoTok -> 16
      [] t = CentroidTok -> 28
      [] t = EmailRemoved -> 15
      [] t = PhoneRemoved -> 15
      [] t = UrlRemoved -> 13
      [] t = Blob5001 -> 5001
      [] t = Pad193 -> 193
      [] t = Ellipsis -> 3
      [] t = UserLabel -> 5
      [] t = AssistantLabel -> 10
      [] t = SummaryIntroTok -> 101
      [] t = SummaryOutroTok -> 63
      [] t = NoSummaryTok -> 28
      [] t \in {ExchangeLabel(i) : i \in 1..9} -> 11
      [] t \in ExchangeLabels -> 12
      [] t = "a@b.com" -> 7
      [] t \in {"u10@b.com", "u11@b.com"} -> 9
      [] t \in EmailToks -> 8
      [] t \in PhoneToks -> 12
      [] t = "https://github.com/librosa" -> 26
      [] t = "https://github.evil.com/x" -> 25
      [] t = "https://evil.com/x" -> 18
      [] t = "https://en.wikipedia.org/wiki/Sound" -> 35
      [] t = "personal" -> 8
      [] t = "thank" -> 5
      [] t = "information" -> 11
      [] t = "ok" -> 2
      [] t = "no" -> 2
      [] t = "you" -> 3
      [] t = "yes" -> 3
      [] t = "thanks" -> 6
      [] t = CutTok -> 1
      [] t = "hello" -> 5
      [] t = "audio" -> 5
      [] t = "Audio" -> 5
      [] t = "music" -> 5
      [] t = "weather" -> 7
      [] t = "kill" -> 4
      [] t = "KILL" -> 4
      [] t = "wow!!!" -> 6
      [] t = "wow!" -> 4 ]

\* token.lower().split(): the whitespace-delimited words of a token, lowercased
SplitWords ==
  [t \in Tokens |->
    CASE IsSpace(t) -> << >>
      [] t = NoteTok -> << "[note:", "i", "focus", "on", "audio", "analysis",
                          "topics.", "if", "you", "have", "questions", "about",
                          "spectrograms,", "audio", "features,", "or", "sound",
                          "analysis,", "i'd", "be", "happy", "to", "help!]" >>
      [] t = NudgeTok -> << "(please", "provide", "an", "audio", "analysis",
                           "perspective", "if", "possible.)" >>
      [] t \in {SysBodyRaw, SysBodyClean} ->
            << "you", "are", "an", "audio", "analysis", "assistant.", "your",
               "responses", "should", "be:", "1.", "focused", "on", "audio,",
               "music,", "and", "sound", "analysis", "topics", "2.",
               "educational", "and", "informative", "3.", "professional",
               "and", "appropriate", "4.", "clear", "and", "accessible", "to",
               "users", "with", "varying", "technical", "backgrounds", "avoid",
               "discussing", "unrelated", "topics", "and", "maintain", "focus",
               "on", "audio", "analysis." >>
      [] t = CtxHeaderTok -> << "current", "audio", "analysis", "context:" >>
      [] t = DurationTok -> << "duration:", "1.50", "seconds" >>
      [] t = TempoTok -> << "tempo:", "120.0", "bpm" >>
      [] t = CentroidTok -> << "spectral", "centroid:", "1500.0", "hz" >>
      [] t = SummaryIntroTok ->
            << "please", "provide", "a", "brief", "summary", "of", "our",
               "conversation", "about", "audio", "analysis.", "here's", "our",
               "conversation:\\n\\n" >>
      [] t = SummaryOutroTok ->
            << "\\n\\nfocus", "on", "the", "key", "topics", "discussed", "and",
               "main", "insights", "shared." >>
      [] t = NoSummaryTok -> << "could", "not", "generate", "summary." >>
      [] t \in ExchangeLabels ->
            << "exchange", CHOOSE w \in {ToString(i) \o ":" : i \in 1..20} :
                              t = "Exchange " \o w >>
      [] t = UserLabel -> << "user:" >>
      [] t = AssistantLabel -> << "assistant:" >>
      [] t = EmailRemoved -> << "[email_removed]" >>
      [] t = PhoneRemoved -> << "[phone_removed]" >>
      [] t = UrlRemoved -> << "[url_removed]" >>
      [] t = "Audio" -> << "audio" >>
      [] t = "KILL" -> << "kill" >>
      [] OTHER -> << t >> ]

\* set(re.findall(r'\b\w+\b', token.lower()))
ReWords ==
  [t \in Tokens |->
    CASE IsSpace(t) -> {}
      [] t = NoteTok -> {"about", "analysis", "audio", "be", "d", "features",
                         "focus", "happy", "have", "help", "i", "if", "note",
                         "on", "or", "questions", "sound", "spectrograms",
                         "to", "topics", "you"}
      [] t = NudgeTok -> {"an", "analysis", "audio", "if", "perspective",
                          "please", "possible", "provide"}
      [] t \in {SysBodyRaw, SysBodyClean} ->
            {"1", "2", "3", "4", "accessible", "an", "analysis", "and",
             "appropriate", "are", "assistant", "audio", "avoid",
             "backgrounds", "be", "clear", "discussing", "educational",
             "focus", "focused", "informative", "maintain", "music", "on",
             "professional", "responses", "should", "sound", "technical",
             "to", "topics", "unrelated", "users", "varying", "with", "you",
             "your"}
      [] t = CtxHeaderTok -> {"current", "audio", "analysis", "context"}
      [] t = DurationTok -> {"duration", "1", "50", "seconds"}
      [] t = TempoTok -> {"tempo", "120", "0", "bpm"}
      [] t = CentroidTok -> {"spectral", "centroid", "1500", "0", "hz"}
      [] t = SummaryIntroTok ->
            {"a", "about", "analysis", "audio", "brief", "conversation",
             "here", "n", "of", "our", "please", "provide", "s", "summary"}
      [] t = SummaryOutroTok ->
            {"and", "discussed", "insights", "key", "main", "n", "nfocus",
             "on", "shared", "the", "topics"}
      [] t = NoSummaryTok -> {"could", "not", "generate", "summary"}
      [] t \in ExchangeLabels ->
            {"exchange", CHOOSE w \in {ToString(i) : i \in 1..20} :
                            t = "Exchange " \o w \o ":"}
      [] t = UserLabel -> {"user"}
      [] t = AssistantLabel -> {"assistant"}
      [] t = Ellipsis -> {}
      [] t = EmailRemoved -> {"email_removed"}
      [] t = PhoneRemoved -> {"phone_removed"}
      [] t = UrlRemoved -> {"url_removed"}
      [] t \in EmailToks -> {t, "b", "com"}
      [] t \in PhoneToks -> {"555", "123", "4567"}
      [] t = "https://github.com/librosa" -> {"https", "github", "com", "librosa"}
      [] t = "https://github.evil.com/x" -> {"https", "github", "evil", "com", "x"}
      [] t = "https://evil.com/x" -> {"https", "evil", "com", "x"}
      [] t = "https://en.wikipedia.org/wiki/Sound" ->
            {"https", "en", "wikipedia", "org", "wiki", "sound"}
      [] t = "Audio" -> {"audio"}
      [] t = "KILL" -> {"kill"}
      [] t = "wow!!!" -> {"wow"}
      [] t = "wow!" -> {"wow"}
      [] OTHER -> {t} ]


\* len(content)
TextLen(c) == BagCardinality([i \in DOMAIN c |-> CharLen[c[i]]])

\* the words of two adjacent chunks: with no whitespace between them the last
\* word of the first and the first word of the second are one word
Juxtapose(ws, vs) ==
    IF ws = << >> THEN vs
    ELSE IF vs = << >> THEN ws
    ELSE SubSeq(ws, 1, Len(ws) - 1) \o << ws[Len(ws)] \o vs[1] >> \o Tail(vs)

\* the indices at which a run of chunks without whitespace between them starts
RunStarts(c) == {i \in DOMAIN c : ~IsSpace(c[i]) /\ (i = 1 \/ IsSpace(c[i-1]))}

RECURSIVE RunWords(_, _)
\* the whitespace-delimited words of the run of chunks that starts at index i
RunWords(c, i) ==
    IF i < Len(c) /\ ~IsSpace(c[i+1])
    THEN Juxtapose(SplitWords[c[i]], RunWords(c, i + 1))
    ELSE SplitWords[c[i]]

\* len(content.lower().split())
WordCount(c) == BagCardinality([i \in RunStarts(c) |-> Len(RunWords(c, i))])

\* set(content.lower().split())
WordSet(c) == UNION {{RunWords(c, i)[k] : k \in DOMAIN RunWords(c, i)} : i \in RunStarts(c)}

RECURSIVE TakeChars(_, _)
\* content[:n]; a token the slice cuts through is left as the fragment CutTok
TakeChars(c, n) ==
    IF c = << >> \/ n <= 0 THEN << >>
    ELSE IF CharLen[Head(c)] <= n
         THEN << Head(c) >> \o TakeChars(Tail(c), n - CharLen[Head(c)])
         ELSE << CutTok >>

\* set(re.findall(r'\b\w+\b', content.lower()))
TextReWords(c) == UNION {ReWords[c[i]] : i \in DOMAIN c}

\* Python truthiness of a string or None
Falsy(c) == c = None \/ c = << >>

\* ------------------------------------------------------------------------
\* ContentFilter (src/src/utils/guardrails.py)
\* ------------------------------------------------------------------------
\* inappropriate_patterns: the single-word alternatives
UnsafeWords == {"hate", "violence", "harmful", "illegal", "dangerous",
                "attack", "harm", "hurt", "kill", "destroy", "ssn"}
\* inappropriate_patterns: the alternatives of the form first\s+second
UnsafePhrases == { <<"personal", "information">>, <<"private", "data">>,
                   <<"credit", "card">> }

allowed_topics == {"audio", "spectrogram", "frequency", "sound", "music",
                   "acoustic", "signal", "processing", "analysis", "waveform",
                   "amplitude", "decibel", "hertz", "pitch", "tone", "harmony",
                   "rhythm", "tempo", "beat", "melody", "voice", "speech",
                   "recording"}

short_responses == {"ok", "yes", "no", "hello", "thanks", "thank you"}

system_context == << INDENT, SysBodyRaw, INDENT >>

\* some pattern of compiled_patterns matches content.lower()
PatternSearch(c) ==
    \/ \E i \in DOMAIN c : ReWords[c[i]] \cap UnsafeWords # {}
    \/ \E i \in DOMAIN c :
          /\ \E p \in UnsafePhrases : SplitWords[c[i]] = << p[1] >>
          /\ \E j \in (i + 2)..Len(c) :
                /\ << SplitWords[c[i]][1], SplitWords[c[j]] >> \in
                      { << p[1], << p[2] >> >> : p \in UnsafePhrases }
                /\ \A k \in (i + 1)..(j - 1) : IsSpace(c[k])

\* mutant: the length is checked before the test for blank content
IsSafeLengthFirst(content) ==
    IF Falsy(content) THEN TRUE
    ELSE IF TextLen(content) > 5000 THEN FALSE
    ELSE IF \A i \in DOMAIN content : IsSpace(content[i]) THEN TRUE
    ELSE IF PatternSearch(content) THEN FALSE
    ELSE IF /\ WordCount(content) > 10
            /\ 10 * Cardinality(WordSet(content)) < 3 * WordCount(content)
         THEN FALSE
         ELSE TRUE

is_safe_content(content) ==
    IF Falsy(content) \/ \A i \in DOMAIN content : IsSpace(content[i])
    THEN TRUE
    ELSE IF PatternSearch(content) THEN FALSE
    ELSE IF TextLen(content) > 5000 THEN FALSE
    ELSE IF /\ WordCount(content) > 10
            /\ 10 * Cardinality(WordSet(content)) < 3 * WordCount(content)
         THEN FALSE
         ELSE TRUE

\* the three re.sub calls of _remove_sensitive_data, on one token
_remove_sensitive_data(content) ==
    [i \in DOMAIN content |->
        IF content[i] \in EmailToks THEN EmailRemoved
        ELSE IF content[i] \in PhoneToks THEN PhoneRemoved
        ELSE IF content[i] \in UrlToksOther THEN UrlRemoved
        ELSE content[i]]

\* re.sub(r'\s+', ' ', .) followed by strip(): a whitespace run is kept, as one
\* space, only between two chunks of text; inside one token, the whitespace
\* runs of the system prompt collapse and re.sub(r'[!?]{3,}', '!', .) applies
_clean_formatting(content) ==
    LET marked == [i \in DOMAIN content |->
                      IF content[i] = "wow!!!" THEN "wow!"
                      ELSE IF content[i] = SysBodyRaw THEN SysBodyClean
                      ELSE IF ~IsSpace(content[i]) THEN content[i]
                      ELSE IF /\ i > 1
                              /\ ~IsSpace(content[i-1])
                              /\ \E j \in (i + 1)..Len(content) : ~IsSpace(content[j])
                           THEN SP
                           ELSE "<dropped>"]
        Kept(t) == t # "<dropped>"
    IN SelectSeq(marked, Kept)

\* mutant: one allowed topic suffices whatever the length
OnTopicAnyTerm(length, words, audio_terms_found) ==
    IF Cardinality(audio_terms_found) > 0 THEN TRUE
    ELSE Cardinality(words) <= 3 /\ \E word \in words : word \in short_responses

\* the decisions of _is_on_topic on len(content), the words of content and the
\* allowed topics among them
OnTopicDecision(length, words, audio_terms_found) ==
    IF length < 200 /\ Cardinality(audio_terms_found) > 0 THEN TRUE
    ELSE IF length >= 200 THEN Cardinality(audio_terms_found) >= 2
    ELSE IF Cardinality(words) <= 3 /\ \E word \in words : word \in short_responses
         THEN TRUE
         ELSE Cardinality(audio_terms_found) > 0

\* mutant: the acknowledgment check is missing
OnTopicWordsNoAck(length, words) ==
    IF length >= 200 THEN Cardinality(words \cap allowed_topics) >= 2
    ELSE Cardinality(words \cap allowed_topics) > 0

OnTopicWords(length, words) == OnTopicDecision(length, words, words \cap allowed_topics)

_is_on_topic(content) == OnTopicWords(TextLen(content), TextReWords(content))

\* the topic check of filter_content on the sanitized text; the redirect
\* note is appended after a blank line
RedirectIfOffTopic(filtered) ==
    IF ~_is_on_topic(filtered) THEN filtered \o << NL2, NoteTok >> ELSE filtered

filter_content(content) ==
    IF Falsy(content) THEN content
    ELSE RedirectIfOffTopic(_clean_formatting(_remove_sensitive_data(content)))

get_system_prompt == system_context

ReasonInappropriate == "Question contains inappropriate content"
ReasonOffTopic == "Question is off-topic but allowed"
ReasonPassed == "Question passed all checks"

\* the request-side instruction appended by validate_question
NudgeSuffix == << SP, NudgeTok >>

\* validate_question after the safety check, on cleaned_question
ValidateCleaned(question, cleaned_question) ==
    IF ~_is_on_topic(cleaned_question)
    THEN [is_valid |-> TRUE, reason |-> ReasonOffTopic,
          modified_question |-> cleaned_question \o NudgeSuffix]
    ELSE [is_valid |-> TRUE, reason |-> ReasonPassed,
          modified_question |->
              IF cleaned_question # question THEN cleaned_question ELSE None]

\* mutant: an off-topic question is rejected too
ValidateRejectingOffTopic(question) ==
    IF ~is_safe_content(question) \/ ~_is_on_topic(question)
    THEN [is_valid |-> FALSE, reason |-> ReasonInappropriate,
          modified_question |-> None]
    ELSE ValidateCleaned(question, filter_content(question))

validate_question(question) ==
    IF ~is_safe_content(question)
    THEN [is_valid |-> FALSE, reason |-> ReasonInappropriate,
          modified_question |-> None]
    ELSE ValidateCleaned(question, filter_content(question))

\* ------------------------------------------------------------------------
\* MistralClient (src/src/core/llm_client.py)
\* ------------------------------------------------------------------------
Message(role, content) == [role |-> role, content |-> content]

ErrSafety == "Content failed safety checks"

\* What the HTTP post does: 200 with a first choice holding content, 200
\* without choices, a non-200 status, a timeout, another request exception, a
\* body that is no JSON (ValueError), a choice without message (KeyError)
OutcomeKinds == {"ok", "no_choices", "status", "timeout", "request_exception",
                 "bad_json", "exception"}
Outcome(kind, content) == [kind |-> kind, content |-> content]

\* mutant: the safety check runs although the content filter is disabled
ContentRejectedAlways(enabled, content) == ~is_safe_content(content)

\* _validate_and_filter_content raises ValueError
ContentRejected(enabled, content) == enabled /\ ~is_safe_content(content)

\* mutant: the content is handed on as it is
PassThroughContent(enabled, content) == content

\* _validate_and_filter_content returns
_validate_and_filter_content(enabled, content) ==
    IF enabled THEN filter_content(content) ELSE content

\* mutant: the response content is returned as received
ResponseContentUnfiltered(enabled, raw) == raw

\* the content of a 200 response with choices, as chat_completion returns it
ResponseContent(enabled, raw) == IF enabled THEN filter_content(raw) ELSE raw

\* mutant: a 200 response without choices is taken for a success
HandleResponseNoChoiceCheck(enabled, outcome) ==
    IF outcome.kind \in {"ok", "no_choices"}
    THEN [success |-> TRUE,
          content |-> IF outcome.kind = "ok" THEN outcome.content ELSE << >>,
          error |-> ""]
    ELSE [success |-> FALSE, content |-> None, error |-> "Unexpected error: 'message'"]

\* chat_completion from the response (or the exception of the post) on
HandleResponse(enabled, outcome) ==
    CASE outcome.kind = "ok" ->
            [success |-> TRUE, content |-> ResponseContent(enabled, outcome.content),
             error |-> ""]
      [] outcome.kind = "no_choices" ->
            [success |-> FALSE, content |-> None, error |-> "Invalid response format"]
      [] outcome.kind = "status" ->
            [success |-> FALSE, content |-> None, error |-> "API request failed: 500 - error"]
      [] outcome.kind = "timeout" ->
            [success |-> FALSE, content |-> None, error |-> "Request timeout after 30 seconds"]
      [] outcome.kind = "request_exception" ->
            [success |-> FALSE, content |-> None, error |-> "Request failed: connection error"]
      [] outcome.kind = "bad_json" ->
            [success |-> FALSE, content |-> None, error |-> "Expecting value: line 1 column 1 (char 0)"]
      [] outcome.kind = "exception" ->
            [success |-> FALSE, content |-> None, error |-> "Unexpected error: 'message'"]

\* posted: the messages of the payload handed to session.post, << >> when the
\* post is not reached; calls: the number of posts
\* what chat_completion returns once payload is posted and r is made of the
\* response
Completion(payload, r) ==
    [success |-> r.success, content |-> r.content, error |-> r.error,
     posted |-> payload, calls |-> 1, has_content |-> r.success]

chat_completion(enabled, messages, outcome) ==
    IF \E i \in DOMAIN messages : ContentRejected(enabled, messages[i].content)
    THEN [success |-> FALSE, content |-> None, error |-> ErrSafety,
          posted |-> << >>, calls |-> 0, has_content |-> FALSE]
    ELSE Completion([i \in DOMAIN messages |->
                        Message(messages[i].role,
                                _validate_and_filter_content(enabled, messages[i].content))],
                    HandleResponse(enabled, outcome))

\* the class of the exception raised inside the try block of chat_completion,
\* "none" when the block returns: ValueError from
\* _validate_and_filter_content or from response.json(), the exceptions of
\* the post, KeyError from result['choices'][0]['message']
TryRaises(enabled, messages, outcome) ==
    IF \E i \in DOMAIN messages : ContentRejected(enabled, messages[i].content)
    THEN "ValueError"
    ELSE CASE outcome.kind = "timeout" -> "Timeout"
           [] outcome.kind = "request_exception" -> "RequestException"
           [] outcome.kind = "bad_json" -> "ValueError"
           [] outcome.kind = "exception" -> "KeyError"
           [] OTHER -> "none"

\* the class of the exception that leaves chat_completion, "none" when it
\* returns; the except clauses catch Timeout, RequestException, ValueError
\* and, by except Exception, every other one
ChatCompletionRaises(enabled, messages, outcome) ==
    IF TryRaises(enabled, messages, outcome)
          \in {"Timeout", "RequestException", "ValueError", "KeyError"}
    THEN "none"
    ELSE TryRaises(enabled, messages, outcome)

\* Settings: the defaults of mistral_model, temperature and max_tokens
settings_temperature == "0.7"
settings_max_tokens == "1000"

\* x or default; a number, or None, is written as Python prints it, and
\* None, 0 and 0.0 are false in a boolean context
PyOr(x, default) == IF x \in {"None", "0", "0.0"} THEN default ELSE x

_prepare_payload(messages, temperature, max_tokens) ==
    [model |-> "mistral-small",
     messages |-> messages,
     temperature |-> PyOr(temperature, settings_temperature),
     max_tokens |-> PyOr(max_tokens, settings_max_tokens),
     safe_prompt |-> TRUE]

\* no payload was prepared
NoPayload ==
    [model |-> "", messages |-> << >>, temperature |-> "", max_tokens |-> "",
     safe_prompt |-> FALSE]

ask_question(enabled, question, outcome) ==
    chat_completion(enabled, << Message("user", question) >>, outcome)

\* ------------------------------------------------------------------------
\* AudioAnalysisService.analyze_multiple_files
\* (src/src/services/analysis_service.py)
\* ------------------------------------------------------------------------
\* What happens for one file of the list: analyze_audio_with_explanation
\* returns a success, or returns a failure (that of the audio processing, or
\* one made of an exception it caught: both carry an error), or the body of
\* the loop raises (a path that cannot be a dictionary key): "ok", "failed",
\* "raises"

\* result['error'], or str(e)
FileError(outcome) ==
    CASE outcome = "failed" -> "Audio analysis failed: File not found"
      [] outcome = "raises" -> "unhashable type: 'list'"

\* the dictionary analyze_multiple_files starts from
InitialResults(file_paths) ==
    [success |-> TRUE, total_files |-> Len(file_paths), successful_analyses |-> 0,
     failed_analyses |-> 0, results |-> << >>, errors |-> << >>]

\* mutant: the error is recorded and the failure is not counted
FailedUncounted(results, file_path, error) ==
    [results EXCEPT !.errors = Append(@, [file |-> file_path, error |-> error])]

\* a failure is counted and its error recorded
Failed(results, file_path, error) ==
    [results EXCEPT !.failed_analyses = @ + 1,
                    !.errors = Append(@, [file |-> file_path, error |-> error])]

\* results['results'][file_path] = result
Stored(results, file_path, outcome) ==
    [results EXCEPT !.results = Append(SelectSeq(@, LAMBDA e : e.file # file_path),
                                       [file |-> file_path, result |-> outcome])]

\* the body of the loop for one file
AnalyzeOne(results, file) ==
    CASE file.outcome = "raises" ->
            Failed(results, file.path, FileError(file.outcome))
      [] file.outcome = "ok" ->
            [Stored(results, file.path, file.outcome)
                EXCEPT !.successful_analyses = @ + 1]
      [] OTHER ->
            Failed(Stored(results, file.path, file.outcome), file.path,
                   FileError(file.outcome))

RECURSIVE AnalyzeAll(_, _)
\* the loop over file_paths, and after it
\* results['success'] = results['successful_analyses'] > 0
AnalyzeAll(results, files) ==
    IF files = << >> THEN [results EXCEPT !.success = results.successful_analyses > 0]
    ELSE AnalyzeAll(AnalyzeOne(results, Head(files)), Tail(files))

\* files: the paths of file_paths, each with what happens for it
analyze_multiple_files(files) == AnalyzeAll(InitialResults(files), files)

\* ------------------------------------------------------------------------
\* ChatService (src/src/services/chat_service.py)
\* ------------------------------------------------------------------------
VARIABLES conversation_history, max_history, enable_content_filter, now, last,
          services

vars == << conversation_history, max_history, enable_content_filter, now, last,
           services >>

Exchange(u, a, t) == [user |-> u, assistant |-> a, timestamp |-> t]

\* mutant: the slice taken from the front, s[:n]
PySliceFirst(s, n) == SubSeq(s, 1, IF Len(s) <= n THEN Len(s) ELSE n)

\* s[-n:]
PySliceLast(s, n) ==
    IF n = 0 THEN s
    ELSE IF n < 0 THEN SubSeq(s, 1 - n, Len(s))
    ELSE IF Len(s) <= n THEN s
    ELSE SubSeq(s, Len(s) - n + 1, Len(s))

\* mutant: the contents rewritten in the request are those of the exchanges
UpdateRewritingExchanges(history, maxh, user_message, ai_response, t) ==
    LET rewritten == [i \in DOMAIN history |->
                         [history[i] EXCEPT !.user = filter_content(@)]]
        appended == Append(rewritten, [user |-> user_message,
                                       assistant |-> ai_response, timestamp |-> t])
    IN IF Len(appended) > maxh
       THEN SubSeq(appended, Len(appended) - maxh + 1, Len(appended))
       ELSE appended

\* mutant: the history is never trimmed
UpdateWithoutTrim(history, maxh, user_message, ai_response, t) ==
    Append(history, [user |-> user_message, assistant |-> ai_response, timestamp |-> t])

_update_conversation_history(history, maxh, user_message, ai_response, t) ==
    LET appended == Append(history, Exchange(user_message, ai_response, t)) IN
    IF Len(appended) > maxh THEN PySliceLast(appended, maxh) ELSE appended

\* context_data: None, or a dictionary with a type and optional features; a
\* feature is absent, a float, or a string (which the format spec :.2f rejects)
NoContext ==
    [present |-> FALSE, type |-> "", has_features |-> FALSE,
     duration |-> "absent", tempo |-> "absent", spectral_centroid |-> "absent"]
AudioContext(d, t, c) ==
    [present |-> TRUE, type |-> "audio_analysis", has_features |-> TRUE,
     duration |-> d, tempo |-> t, spectral_centroid |-> c]

ErrFormat == "Unknown format code 'f' for object of type 'str'"

AddsFeatures(context_data) ==
    context_data.present /\ context_data.type = "audio_analysis" /\ context_data.has_features

SystemPromptFor(context_data) ==
    IF AddsFeatures(context_data)
    THEN get_system_prompt \o << NL2, CtxHeaderTok >>
         \o (IF context_data.duration = "float" THEN << NL, DurationTok >> ELSE << >>)
         \o (IF context_data.tempo = "float" THEN << NL, TempoTok >> ELSE << >>)
         \o (IF context_data.spectral_centroid = "float" THEN << NL, CentroidTok >> ELSE << >>)
    ELSE get_system_prompt

\* mutant: no exchange is replayed
RecentExchangesNone(history) == << >>

\* mutant: the whole history is replayed
RecentExchangesAll(history) == history

\* self.conversation_history[-5:]
RecentExchanges(history) == PySliceLast(history, 5)

\* the system prompt, the user and assistant messages of the recent
\* exchanges, interleaved, and the current message
_build_conversation_context(history, user_message, context_data) ==
    << Message("system", SystemPromptFor(context_data)) >>
    \o [k \in 1..(2 * Len(RecentExchanges(history))) |->
          IF k % 2 = 1
          THEN Message("user", RecentExchanges(history)[(k + 1) \div 2].user)
          ELSE Message("assistant", RecentExchanges(history)[k \div 2].assistant)]
    \o << Message("user", user_message) >>

\* mutant: the early return is missing
ValidationNeverRejects(validation_result) == FALSE

\* the early return of send_message
ValidationRejects(validation_result) == ~validation_result.is_valid

LastDefault ==
    [op |-> "init", user_message |-> None, is_valid |-> FALSE, reason |-> "",
     processed |-> None, built |-> << >>, posted |-> << >>, calls |-> 0,
     outcome |-> "none", raw |-> None, success |-> TRUE, error |-> "",
     ai_response |-> None, conversation_length |-> -1, exchanges |-> -1,
     removed |-> -1, summary |-> None, message |-> "", verdict |-> FALSE,
     raised |-> "none", temperature |-> "None", max_tokens |-> "None",
     payload |-> NoPayload, instance |-> "", max_length |-> -1,
     files |-> << >>, batch |-> InitialResults(<< >>)]

\* mutant: the exception is raised again to the caller of send_message
SendExceptReraise(base, message) ==
    [base EXCEPT !.success = FALSE, !.raised = "Exception"]

\* the clause "except Exception as e" of send_message: the result returned
\* for an exception whose str(e) is message
SendExcept(base, message) ==
    [base EXCEPT !.success = FALSE, !.error = message, !.raised = "none"]

ErrNoneLower == "'NoneType' object has no attribute 'lower'"

\* what send_message has done when it returns early after validation
Validated(user_message, validation_result) ==
    [LastDefault EXCEPT !.op = "send", !.user_message = user_message,
                        !.is_valid = validation_result.is_valid,
                        !.reason = validation_result.reason]

\* what send_message has done once chat_completion has returned response
Sent(withp, messages, outcome, response) ==
    [withp EXCEPT !.built = messages, !.posted = response.posted,
                  !.calls = response.calls,
                  !.outcome = IF response.calls = 1 THEN outcome.kind ELSE "none",
                  !.raw = IF response.calls = 1 /\ outcome.kind = "ok"
                          THEN outcome.content ELSE None]

\* the success result of send_message, the history being updated
Recorded(updated, sent, response) ==
    [history |-> updated,
     result |-> [sent EXCEPT !.success = TRUE, !.ai_response = response.content,
                             !.conversation_length = Len(updated)]]

\* send_message from the response of chat_completion on
Answered(history, maxh, t, user_message, sent, response) ==
    IF response.success
    THEN Recorded(_update_conversation_history(history, maxh, user_message,
                                               response.content, t),
                  sent, response)
    ELSE [history |-> history,
          result |-> [sent EXCEPT !.success = FALSE, !.error = response.error]]

\* send_message from the built messages on
Built(history, maxh, t, user_message, outcome, withp, messages, response) ==
    Answered(history, maxh, t, user_message,
             Sent(withp, messages, outcome, response), response)

Requested(history, maxh, enabled, t, user_message, outcome, withp, messages) ==
    Built(history, maxh, t, user_message, outcome, withp, messages,
          chat_completion(enabled, messages, outcome))

\* send_message after the validation passed; formatting a feature that is a
\* str raises ValueError
Processed(history, maxh, enabled, t, user_message, context_data, outcome, base, processed_message) ==
    IF /\ AddsFeatures(context_data)
       /\ "str" \in {context_data.duration, context_data.tempo,
                     context_data.spectral_centroid}
    THEN [history |-> history,
          result |-> SendExcept([base EXCEPT !.processed = processed_message],
                                ErrFormat)]
    ELSE Requested(history, maxh, enabled, t, user_message, outcome,
                   [base EXCEPT !.processed = processed_message],
                   _build_conversation_context(history, processed_message,
                                               context_data))

\* send_message from the result of validate_question on; processed_message is
\* validation_result.get('modified_question', user_message), and
\* validate_question always sets the key, so the default is never taken
AfterValidation(history, maxh, enabled, t, user_message, context_data, outcome, validation_result, base) ==
    IF ValidationRejects(validation_result)
    THEN [history |-> history,
          result |-> [base EXCEPT !.success = FALSE, !.error = validation_result.reason]]
    ELSE Processed(history, maxh, enabled, t, user_message, context_data, outcome,
                   base, validation_result.modified_question)

WithValidation(history, maxh, enabled, t, user_message, context_data, outcome, validation_result) ==
    AfterValidation(history, maxh, enabled, t, user_message, context_data, outcome,
                    validation_result, Validated(user_message, validation_result))

\* send_message: the history it leaves and what it returns and does.
\* validate_question raises AttributeError for None: is_safe_content is True,
\* filter_content is None and _is_on_topic calls None.lower()
send_message(history, maxh, enabled, t, user_message, context_data, outcome) ==
    IF user_message = None
    THEN [history |-> history,
          result |-> SendExcept([LastDefault EXCEPT !.op = "send",
                                                    !.user_message = user_message],
                                ErrNoneLower)]
    ELSE WithValidation(history, maxh, enabled, t, user_message, context_data,
                        outcome, validate_question(user_message))

RECURSIVE FormatFrom(_, _)
\* _format_history_for_summary, from exchange number i on
FormatFrom(history, i) ==
    IF i > Len(history) THEN << >>
    ELSE << ExchangeLabel(i), NL, UserLabel, SP >> \o history[i].user
         \o << NL, AssistantLabel, SP >> \o TakeChars(history[i].assistant, 200)
         \o << Ellipsis, NL >>
         \o (IF i < Len(history) THEN << NL >> ELSE << >>)
         \o FormatFrom(history, i + 1)

\* mutant: only the first exchange is formatted
FormatFirstOnly(history) == FormatFrom(SubSeq(history, 1, 1), 1)

_format_history_for_summary(history) == FormatFrom(history, 1)

SummaryPrompt(history) ==
    << SummaryIntroTok >> \o _format_history_for_summary(history) \o << SummaryOutroTok >>

\* what get_conversation_summary returns and has done, response being what
\* ask_question returned for summary_prompt
Summarized(history, outcome, summary_prompt, response) ==
    [LastDefault EXCEPT
        !.op = "summary", !.built = << Message("user", summary_prompt) >>,
        !.posted = response.posted, !.calls = response.calls,
        !.outcome = IF response.calls = 1 THEN outcome.kind ELSE "none",
        !.raw = IF response.calls = 1 /\ outcome.kind = "ok"
                THEN outcome.content ELSE None,
        !.success = response.success,
        !.summary = IF response.has_content THEN response.content ELSE << NoSummaryTok >>,
        !.exchanges = Len(history),
        !.error = IF ~response.success THEN response.error ELSE ""]

SummaryOf(history, enabled, outcome, summary_prompt) ==
    Summarized(history, outcome, summary_prompt,
               ask_question(enabled, summary_prompt, outcome))

\* the message get_conversation_summary returns for an empty history
NoHistoryMessage == "No conversation history available."

\* mutant: the early return for an empty history is missing
SummaryWithoutEmptyCheck(history, enabled, outcome) ==
    SummaryOf(history, enabled, outcome, SummaryPrompt(history))

get_conversation_summary(history, enabled, outcome) ==
    IF history = << >>
    THEN [LastDefault EXCEPT !.op = "summary", !.success = TRUE, !.exchanges = 0,
                             !.message = NoHistoryMessage]
    ELSE SummaryOf(history, enabled, outcome, SummaryPrompt(history))

\* ------------------------------------------------------------------------
\* sanitize_filename (src/src/utils/validators.py); a filename is the
\* sequence of its characters
\* ------------------------------------------------------------------------
\* sanitized.strip(' .')
StripSpacesDots(str) ==
    LET kept == {i \in DOMAIN str : str[i] \notin {" ", "."}} IN
    IF kept = {} THEN << >>
    ELSE SubSeq(str, CHOOSE i \in kept : \A j \in kept : i <= j,
                     CHOOSE i \in kept : \A j \in kept : j <= i)

\* str[:n]
PyPrefix(str, n) ==
    IF n >= Len(str) THEN str
    ELSE IF n >= 0 THEN SubSeq(str, 1, n)
    ELSE IF Len(str) + n > 0 THEN SubSeq(str, 1, Len(str) + n)
    ELSE << >>

\* the index of the last '.' of str
LastDot(str) == CHOOSE i \in DOMAIN str : str[i] = "." /\ \A j \in (i + 1)..Len(str) : str[j] # "."

\* the truncation of a name longer than max_length: with name, ext the parts
\* around the last '.', name[:max_length - len(ext) - 1] + '.' + ext, and
\* sanitized[:max_length] when there is no '.'
Truncate(sanitized, max_length) ==
    IF Len(sanitized) <= max_length THEN sanitized
    ELSE IF \E i \in DOMAIN sanitized : sanitized[i] = "."
    THEN PyPrefix(SubSeq(sanitized, 1, LastDot(sanitized) - 1),
                  max_length - (Len(sanitized) - LastDot(sanitized)) - 1)
         \o << "." >> \o SubSeq(sanitized, LastDot(sanitized) + 1, Len(sanitized))
    ELSE PyPrefix(sanitized, max_length)

\* if not sanitized: sanitized = "file"
NonEmptyName(sanitized) ==
    IF sanitized = << >> THEN << "f", "i", "l", "e" >> ELSE sanitized

\* the loop of sanitized.replace(char, '_') over the invalid characters, the strip, the
\* truncation and the default
sanitize_filename(filename, max_length) ==
    NonEmptyName(Truncate(StripSpacesDots(
        [i \in DOMAIN filename |->
            IF filename[i] \in {"<", ">", ":", "\"", "/", "\\", "|", "?", "*"}
            THEN "_" ELSE filename[i]]), max_length))

\* ------------------------------------------------------------------------
\* Two ChatService instances in one process
\* ------------------------------------------------------------------------
Instances == {"a", "b"}

\* the identities of the list objects that are alive; an instance that is
\* not constructed yet has its attribute "unbound"
ListIds == {"list1", "list2", "list3"}

\* mutant: one list object for every instance, as a class attribute would be
SameList(refs) == "list1"

\* []: a list object that no instance refers to
NewList(refs) == CHOOSE id \in ListIds : \A x \in Instances : refs[x] # id

\* the list object id is freed once no instance refers to it
Release(world, id) ==
    IF id = "unbound" \/ \E x \in Instances : world.conversation_history[x] = id
    THEN world
    ELSE [world EXCEPT !.heap[id] = << >>]

\* self.conversation_history = []
Rebind(world, x) ==
    Release([world EXCEPT
                !.conversation_history[x] = NewList(world.conversation_history),
                !.heap[NewList(world.conversation_history)] = << >>],
            world.conversation_history[x])

\* ChatService.__init__ with ContentFilter.setup_filters
Construct(world, x) ==
    [Rebind(world, x) EXCEPT
        !.max_history[x] = 10,
        !.allowed_topics[x] = allowed_topics,
        !.inappropriate_patterns[x] = << UnsafeWords, UnsafePhrases >>]

\* the two services constructed, from the process before any is
InitServices ==
    Construct(Construct([heap |-> [id \in ListIds |-> << >>],
                         conversation_history |-> [x \in Instances |-> "unbound"],
                         max_history |-> [x \in Instances |-> 0],
                         allowed_topics |-> [x \in Instances |-> {}],
                         inappropriate_patterns |-> [x \in Instances |-> << >>]],
                        "a"), "b")

\* self.conversation_history of instance x
HistoryOf(world, x) == world.heap[world.conversation_history[x]]

\* the filter of instance x after _is_on_topic was called on content:
\* words.intersection(self.allowed_topics) returns a new set and leaves
\* self.allowed_topics as it is
Classified(world, x, content) ==
    [world EXCEPT !.allowed_topics[x] = @]

\* self.conversation_history.append(.) on the list object, then, when the
\* list was trimmed, self.conversation_history = self.conversation_history[-n:]
\* bound to a new list object; updated is the history send_message leaves
Updated(world, x, updated) ==
    IF updated = HistoryOf(world, x) THEN world
    ELSE IF Len(updated) = Len(HistoryOf(world, x)) + 1
         THEN [world EXCEPT !.heap[world.conversation_history[x]] = updated]
         ELSE [Rebind([world EXCEPT
                          !.heap[world.conversation_history[x]] =
                              Append(@, updated[Len(updated)])], x)
                  EXCEPT !.heap[NewList(world.conversation_history)] = updated]

\* ------------------------------------------------------------------------
\* Bounds and inputs
\* ------------------------------------------------------------------------
\* exchanges recorded in a behaviour of Spec
MaxTurns == 1
\* exchanges recorded in a behaviour of SpecHist
MaxClock == 11

Hello == << "hello" >>
Weather == << "weather" >>
Kill == << "kill" >>
EmailAudio == << "a@b.com", SP, "audio" >>
Mails == << "u1@b.com", SP, "u2@b.com", SP, "u3@b.com", SP, "u4@b.com", SP,
            "u5@b.com", SP, "u6@b.com", SP, "u7@b.com", SP, "u8@b.com", SP,
            "u9@b.com", SP, "u10@b.com", SP, "u11@b.com", SP, "audio" >>

Outcomes ==
    {Outcome("ok", r) : r \in { << "audio" >>, Weather, Kill }}
    \cup {Outcome("timeout", None)}

TransportOutcomes == {Outcome("ok", << "audio" >>), Outcome("ok", Kill)}
                     \cup {Outcome(k, None) : k \in OutcomeKinds \ {"ok"}}

\* exchanges recorded in a behaviour of SpecSummary
MaxSummaryTurns == 7

NineMails == << "u1@b.com", SP, "u2@b.com", SP, "u3@b.com", SP, "u4@b.com", SP,
                "u5@b.com", SP, "u6@b.com", SP, "u7@b.com", SP, "u8@b.com", SP,
                "u9@b.com" >>

\* an answer or a timeout: the outcomes of SpecSummary, SpecConfig and SpecSessions
SummaryOutcomes == {Outcome("ok", << "audio" >>), Outcome("timeout", None)}

\* exchanges recorded in a behaviour of SpecConfig
MaxConfigTurns == 3

\* exchanges recorded in a behaviour of SpecErrors
MaxErrorTurns == 2

\* exchanges recorded in a behaviour of SpecSessions
MaxSessionTurns == 3

\* the arguments of sanitize_filename in SpecValidators: the filenames of at
\* most MaxNameLen characters, max_length up to MaxLength
MaxNameLen == 3
MaxLength == 5

\* the lists handed to analyze_multiple_files in SpecBatch: at most MaxFiles
\* paths, a path may occur twice
MaxFiles == 3


\* texts handed to the methods of ContentFilter in SpecFilter
Hellos(n) == [i \in 1..(2 * n - 1) |-> IF i % 2 = 1 THEN "hello" ELSE SP]
FilterTexts ==
    { << >>, << SP >>, << Spaces5001 >>, << NL2, Spaces5001 >>,
      Hello, Weather, Kill, << "audio" >>, << "Audio" >>,
      << "hello", SP, "KILL" >>,
      << "personal", SP, "information" >>,
      << "personal", NL2, "information" >>,
      << "information", SP, "personal" >>,
      << Blob5001 >>, << "hello", SP, Blob5001 >>,
      << Pad193, SP, "audio" >>, << Pad193, NL2, "audio" >>,
      << Pad193, NL2, "audio", SP, "music" >>,
      << Pad193, NL2, "audio", SP, "Audio" >>,
      << Pad193, NL2, "weather" >>,
      << "hello", SP, Pad193 >>, << "hello", NL2, Pad193 >>,
      Hellos(10), Hellos(11),
      Hellos(9) \o << SP, "ok", SP, "yes" >>,
      Hellos(8) \o << SP, "ok", SP, "yes", SP, "no" >>,
      Hellos(8) \o << SP, "Audio", SP, "audio", SP, "music" >>,
      Hellos(15) \o << SP, "ok", SP, "yes", SP, "no", SP, "thanks", SP, "you" >>,
      Hellos(16) \o << SP, "ok", SP, "yes", SP, "no", SP, "thanks", SP, "you" >>,
      << "ok" >>, << "yes" >>, << "no" >>, << "thanks" >>, << "thank", SP, "you" >>,
      << "hello", SP, "weather", SP, "you" >>,
      << "hello", SP, "weather", SP, "you", SP, "wow!" >>,
      << "music", SP, "weather" >>, << "weather", SP, "wow!!!" >>,
      << "https://github.com/librosa" >>,
      << "audio", SP, "https://github.evil.com/x" >>,
      << "https://evil.com/x", SP, "audio" >>,
      << "https://en.wikipedia.org/wiki/Sound" >>,
      << "555-123-4567", SP, "a@b.com", NL, "https://evil.com/x" >>,
      EmailAudio, Mails, NineMails, system_context }

\* the outcomes of the post in SpecHist
HistOutcomes ==
    {Outcome("ok", << "audio" >>)} \cup {Outcome(k, None) : k \in OutcomeKinds \ {"ok"}}

\* ------------------------------------------------------------------------
\* Actions
\* ------------------------------------------------------------------------
Init ==
    /\ conversation_history = << >>
    /\ max_history = 10
    /\ enable_content_filter \in BOOLEAN
    /\ now = 0
    /\ last = LastDefault
    /\ services = InitServices

StartConversation ==
    /\ conversation_history' = << >>
    /\ last' = [LastDefault EXCEPT !.op = "start", !.success = TRUE]
    /\ UNCHANGED << max_history, enable_content_filter, now, services >>

SendMessage(user_message, context_data, outcome, bound) ==
    /\ \E r \in {send_message(conversation_history, max_history, enable_content_filter,
                              now, user_message, context_data, outcome)} :
          /\ r.result.success => now < bound
          /\ conversation_history' = r.history
          /\ last' = r.result
          /\ now' = IF r.result.success THEN now + 1 ELSE now
    /\ UNCHANGED << max_history, enable_content_filter, services >>

GetConversationSummary(outcome) ==
    /\ last' = get_conversation_summary(conversation_history, enable_content_filter, outcome)
    /\ UNCHANGED << conversation_history, max_history, enable_content_filter, now, services >>

\* mutant: the length is taken after the history was emptied
ClearConversationCountAfter ==
    /\ conversation_history' = << >>
    /\ last' = [LastDefault EXCEPT !.op = "clear", !.success = TRUE, !.removed = 0]
    /\ UNCHANGED << max_history, enable_content_filter, now, services >>

ClearConversation ==
    /\ conversation_history' = << >>
    /\ last' = [LastDefault EXCEPT !.op = "clear", !.success = TRUE,
                                   !.removed = Len(conversation_history)]
    /\ UNCHANGED << max_history, enable_content_filter, now, services >>

GetConversationHistory ==
    /\ last' = [LastDefault EXCEPT !.op = "history", !.success = TRUE,
                                   !.exchanges = Len(conversation_history)]
    /\ UNCHANGED << conversation_history, max_history, enable_content_filter, now, services >>

Next ==
    \/ StartConversation
    \/ \E u \in { << >>, Hello, Weather, Kill, << Blob5001 >>, EmailAudio, Mails },
          c \in { NoContext, AudioContext("str", "absent", "absent") },
          o \in Outcomes : SendMessage(u, c, o, MaxTurns)
    \/ \E o \in Outcomes : GetConversationSummary(o)
    \/ ClearConversation
    \/ GetConversationHistory

Spec == Init /\ [][Next]_vars

NextHist ==
    \/ StartConversation
    \/ \E u \in { Weather },
          c \in {NoContext,
                 [NoContext EXCEPT !.present = TRUE, !.type = "concept_explanation"],
                 AudioContext("float", "absent", "float")},
          o \in HistOutcomes :
          SendMessage(u, c, o, MaxClock)
    \/ \E o \in HistOutcomes : GetConversationSummary(o)
    \/ ClearConversation
    \/ GetConversationHistory

SpecHist == Init /\ [][NextHist]_vars

NextTransport ==
    \/ StartConversation
    \/ \E u \in { Hello, Mails }, o \in TransportOutcomes :
          SendMessage(u, NoContext, o, MaxTurns)
    \/ \E o \in TransportOutcomes : GetConversationSummary(o)
    \/ ClearConversation
    \/ GetConversationHistory

SpecTransport == Init /\ [][NextTransport]_vars

NextSummary ==
    \/ StartConversation
    \/ \E u \in { NineMails, Hellos(10) }, o \in SummaryOutcomes :
          SendMessage(u, NoContext, o, MaxSummaryTurns)
    \/ \E o \in SummaryOutcomes : GetConversationSummary(o)
    \/ ClearConversation
    \/ GetConversationHistory

SpecSummary == Init /\ [][NextSummary]_vars

\* the methods of ContentFilter, called on their own; last holds the argument
\* and what the call returned
IsSafeContent(content) ==
    /\ last' = [LastDefault EXCEPT !.op = "is_safe_content", !.user_message = content,
                                   !.verdict = is_safe_content(content)]
    /\ UNCHANGED << conversation_history, max_history, enable_content_filter, now, services >>

IsOnTopic(content) ==
    /\ last' = [LastDefault EXCEPT !.op = "_is_on_topic", !.user_message = content,
                                   !.verdict = _is_on_topic(content)]
    /\ UNCHANGED << conversation_history, max_history, enable_content_filter, now, services >>

ValidateQuestion(question) ==
    /\ \E v \in {validate_question(question)} :
          last' = [LastDefault EXCEPT !.op = "validate_question",
                                     !.user_message = question,
                                     !.is_valid = v.is_valid, !.reason = v.reason,
                                     !.processed = v.modified_question]
    /\ UNCHANGED << conversation_history, max_history, enable_content_filter, now, services >>

RemoveSensitiveData(content) ==
    /\ last' = [LastDefault EXCEPT !.op = "_remove_sensitive_data",
                                   !.user_message = content,
                                   !.processed = _remove_sensitive_data(content)]
    /\ UNCHANGED << conversation_history, max_history, enable_content_filter, now, services >>

NextFilter ==
    \/ \E c \in FilterTexts : IsSafeContent(c)
    \/ \E c \in FilterTexts : IsOnTopic(c)
    \/ \E q \in FilterTexts : ValidateQuestion(q)
    \/ \E c \in FilterTexts : RemoveSensitiveData(c)

SpecFilter == Init /\ [][NextFilter]_vars

NextErrors ==
    \/ StartConversation
    \/ \E u \in { None, Hello, Kill, Mails },
          c \in { NoContext, AudioContext("str", "absent", "absent") },
          o \in TransportOutcomes :
          SendMessage(u, c, o, MaxErrorTurns)
    \/ \E o \in TransportOutcomes : GetConversationSummary(o)
    \/ ClearConversation
    \/ GetConversationHistory

SpecErrors == Init /\ [][NextErrors]_vars

\* the operations of ChatService on instance x of two
SessionStart(x) ==
    /\ services' = Rebind(services, x)
    /\ last' = [LastDefault EXCEPT !.op = "start", !.success = TRUE, !.instance = x]
    /\ UNCHANGED << conversation_history, max_history, enable_content_filter, now >>

SessionSend(x, user_message, outcome) ==
    /\ \E r \in {send_message(HistoryOf(services, x), services.max_history[x],
                              enable_content_filter, now, user_message,
                              NoContext, outcome)} :
          /\ r.result.success => now < MaxSessionTurns
          /\ services' = Updated(Classified(services, x, user_message), x, r.history)
          /\ last' = [r.result EXCEPT !.instance = x]
          /\ now' = IF r.result.success THEN now + 1 ELSE now
    /\ UNCHANGED << conversation_history, max_history, enable_content_filter >>

SessionSummary(x, outcome) ==
    /\ last' = [get_conversation_summary(HistoryOf(services, x),
                                         enable_content_filter, outcome)
                    EXCEPT !.instance = x]
    /\ UNCHANGED << conversation_history, max_history, enable_content_filter, now,
                    services >>

SessionClear(x) ==
    /\ services' = Rebind(services, x)
    /\ last' = [LastDefault EXCEPT !.op = "clear", !.success = TRUE, !.instance = x,
                                   !.removed = Len(HistoryOf(services, x))]
    /\ UNCHANGED << conversation_history, max_history, enable_content_filter, now >>

SessionHistory(x) ==
    /\ last' = [LastDefault EXCEPT !.op = "history", !.success = TRUE,
                                   !.instance = x,
                                   !.exchanges = Len(HistoryOf(services, x))]
    /\ UNCHANGED << conversation_history, max_history, enable_content_filter, now,
                    services >>

NextSessions ==
    \/ \E x \in Instances : SessionStart(x)
    \/ \E x \in Instances, u \in { Weather }, o \in SummaryOutcomes :
          SessionSend(x, u, o)
    \/ \E x \in Instances, o \in SummaryOutcomes : SessionSummary(x, o)
    \/ \E x \in Instances : SessionClear(x)
    \/ \E x \in Instances : SessionHistory(x)

SpecSessions == Init /\ [][NextSessions]_vars

\* sanitize_filename called on its own; last holds the arguments and the
\* name returned
SanitizeFilename(filename, max_length) ==
    /\ last' = [LastDefault EXCEPT !.op = "sanitize_filename",
                                   !.user_message = filename,
                                   !.max_length = max_length,
                                   !.processed = sanitize_filename(filename, max_length)]
    /\ UNCHANGED << conversation_history, max_history, enable_content_filter, now,
                    services >>

NextValidators ==
    \E f \in UNION {[1..k -> {"a", ".", " ", "/"}] : k \in 0..MaxNameLen},
       n \in 0..MaxLength : SanitizeFilename(f, n)

SpecValidators == Init /\ [][NextValidators]_vars

\* analyze_multiple_files called on a list of files; last holds the list and
\* the dictionary returned
AnalyzeMultipleFiles(files) ==
    /\ last' = [LastDefault EXCEPT !.op = "analyze_multiple_files",
                                   !.files = files,
                                   !.batch = analyze_multiple_files(files)]
    /\ UNCHANGED << conversation_history, max_history, enable_content_filter, now,
                    services >>

NextBatch ==
    \E files \in UNION {[1..n -> [path : {"a.wav", "b.wav"},
                                  outcome : {"ok", "failed", "raises"}]] :
                         n \in 0..MaxFiles} : AnalyzeMultipleFiles(files)

SpecBatch == Init /\ [][NextBatch]_vars

\* MistralClient.chat_completion called on its own; last holds the arguments,
\* the payload posted, what the call returned and the exception it raised
ChatCompletion(messages, temperature, max_tokens, outcome) ==
    /\ \E r \in {chat_completion(enable_content_filter, messages, outcome)} :
          last' = [LastDefault EXCEPT
                      !.op = "chat_completion", !.built = messages,
                      !.temperature = temperature, !.max_tokens = max_tokens,
                      !.posted = r.posted, !.calls = r.calls,
                      !.payload = IF r.calls = 1
                                  THEN _prepare_payload(r.posted, temperature, max_tokens)
                                  ELSE NoPayload,
                      !.outcome = IF r.calls = 1 THEN outcome.kind ELSE "none",
                      !.raw = IF r.calls = 1 /\ outcome.kind = "ok"
                              THEN outcome.content ELSE None,
                      !.success = r.success, !.error = r.error,
                      !.ai_response = r.content,
                      !.raised = ChatCompletionRaises(enable_content_filter,
                                                      messages, outcome)]
    /\ UNCHANGED << conversation_history, max_history, enable_content_filter, now, services >>

NextClient ==
    \E m \in { << Message("user", Hello) >>,
               << Message("user", EmailAudio) >>,
               << Message("system", system_context), Message("user", Kill) >>,
               << Message("user", Hello), Message("assistant", << Blob5001 >>),
                  Message("user", Weather) >> },
       t \in {"None", "0.0", "0.3", "0.7"},
       k \in {"None", "0", "50", "1000"},
       o \in TransportOutcomes : ChatCompletion(m, t, k, o)

SpecClient == Init /\ [][NextClient]_vars

\* a service whose max_history attribute was set after construction
InitConfig ==
    /\ conversation_history = << >>
    /\ max_history \in {0, 1, 2}
    /\ enable_content_filter \in BOOLEAN
    /\ now = 0
    /\ last = LastDefault
    /\ services = InitServices

NextConfig ==
    \/ StartConversation
    \/ \E u \in { Hello, Weather }, o \in SummaryOutcomes :
          SendMessage(u, NoContext, o, MaxConfigTurns)
    \/ \E o \in SummaryOutcomes : GetConversationSummary(o)
    \/ ClearConversation
    \/ GetConversationHistory

SpecConfig == InitConfig /\ [][NextConfig]_vars

\* ------------------------------------------------------------------------
\* Properties
\* ------------------------------------------------------------------------
\* C1: with the default max_history = 10, after every operation of ChatService
\* the history holds at most max_history exchanges
C1_HistoryBounded ==
    max_history = 10 /\ Len(conversation_history) <= max_history

\* a full history after an exchange was evicted
C1_Witness ==
    /\ last.op = "send" /\ last.success
    /\ Len(conversation_history) = max_history
    /\ now > max_history

\* C2: recording an exchange in a history that holds max_history exchanges
\* removes exactly the oldest one, keeps the order of the others and puts the
\* new exchange last; in a shorter history nothing is removed
C2_FifoEviction ==
    [][ now' = now + 1 =>
        LET h == conversation_history
            h2 == conversation_history'
        IN /\ Len(h2) >= 1
           /\ h2[Len(h2)] = Exchange(last'.user_message, last'.ai_response, now)
           /\ Len(h) = max_history =>
                 /\ Len(h2) = max_history
                 /\ \A i \in 1..(Len(h) - 1) : h2[i] = h[i + 1]
           /\ Len(h) < max_history =>
                 /\ Len(h2) = Len(h) + 1
                 /\ \A i \in 1..Len(h) : h2[i] = h[i] ]_vars

\* exchange #11 was recorded and exchange #1 (timestamp 0) is gone
C2_Witness ==
    /\ last.op = "send" /\ last.success
    /\ Len(conversation_history) = max_history
    /\ conversation_history[1].timestamp = 1
    /\ conversation_history[max_history].timestamp = max_history

\* C3: when validate_question reports the text invalid, send_message fails
\* with the validation reason, does not post and leaves the history unchanged
C3_InvalidRejected ==
    [][ (last'.op = "send" /\ ~validate_question(last'.user_message).is_valid) =>
        /\ ~last'.success
        /\ last'.error = validate_question(last'.user_message).reason
        /\ last'.calls = 0
        /\ last'.posted = << >>
        /\ conversation_history' = conversation_history ]_vars

\* a text of more than 5000 characters was rejected in a session with history
C3_Witness ==
    /\ last.op = "send" /\ last.user_message = << Blob5001 >>
    /\ ~last.success /\ last.error = ReasonInappropriate
    /\ Len(conversation_history) = 1

\* C4: when chat_completion fails (safety rejection, non-200 status, timeout,
\* request exception, payload without choices, any other exception),
\* send_message fails and the history is what it was
C4_FailedTurnNotRecorded ==
    [][ ( /\ last'.op = "send"
          /\ last'.built # << >>
          /\ ~(last'.calls = 1 /\ last'.outcome = "ok") ) =>
        /\ ~last'.success
        /\ last'.error # ""
        /\ last'.ai_response = None
        /\ conversation_history' = conversation_history ]_vars

\* a post that came back without choices, in a session with history
C4_Witness ==
    /\ last.op = "send" /\ last.calls = 1 /\ last.outcome = "no_choices"
    /\ ~last.success
    /\ Len(conversation_history) = 1

C6_ValidThenPosted ==
    (last.op = "send" /\ validate_question(last.user_message).is_valid) =>
        (last.built # << >> /\ last.calls = 1)

\* C6 amended: whenever validate_question passes, the request is built and
\* posted, unless building the context raises, or the content filter is
\* enabled and a message of the request fails is_safe_content; then
\* send_message fails without a post
C6_ValidThenPostedOrGate ==
    (last.op = "send" /\ validate_question(last.user_message).is_valid) =>
        \/ /\ last.built # << >>
           /\ last.calls = 1
           /\ enable_content_filter =>
                 \A i \in DOMAIN last.built : is_safe_content(last.built[i].content)
        \/ /\ last.built # << >>
           /\ last.calls = 0
           /\ ~last.success
           /\ enable_content_filter
           /\ \E i \in DOMAIN last.built : ~is_safe_content(last.built[i].content)
        \/ /\ last.built = << >>
           /\ last.calls = 0
           /\ ~last.success
           /\ last.error = ErrFormat

\* on a fresh session a valid question was rejected before the post
C6_Witness ==
    /\ last.op = "send" /\ last.is_valid
    /\ last.user_message = Mails
    /\ last.built # << >> /\ last.calls = 0 /\ ~last.success
    /\ conversation_history = << >>

\* C7: when validate_question passes and leaves modified_question unset, the
\* request ends with a user message holding the original user text, and a
\* request of two messages is a system message followed by that user message
C7_UnsetUsesOriginal ==
    ( /\ last.op = "send"
      /\ validate_question(last.user_message).is_valid
      /\ validate_question(last.user_message).modified_question = None
      /\ last.built # << >> ) =>
        /\ last.built[Len(last.built)] = Message("user", last.user_message)
        /\ Len(last.built) = 2 => last.built[1].role = "system"

C9_OffTopicNudge ==
    LET sanitized == _clean_formatting(_remove_sensitive_data(last.user_message)) IN
    ( /\ last.op = "send"
      /\ is_safe_content(last.user_message)
      /\ ~_is_on_topic(sanitized) ) =>
        /\ last.is_valid
        /\ last.processed = sanitized \o NudgeSuffix

\* C10: when the content returned by the model fails is_safe_content, the
\* turn fails, the content is not returned and no exchange holds it
C10_ResponseFailsClosed ==
    ( /\ last.op = "send"
      /\ enable_content_filter
      /\ last.calls = 1 /\ last.outcome = "ok"
      /\ ~is_safe_content(last.raw) ) =>
        /\ ~last.success
        /\ last.ai_response = None
        /\ \A i \in DOMAIN conversation_history :
              conversation_history[i].assistant # filter_content(last.raw)

\* C11: with the content filter enabled, the content of every message handed
\* to the transport passes is_safe_content as it is posted
C11_PostedContentSafe ==
    enable_content_filter =>
        \A i \in DOMAIN last.posted : is_safe_content(last.posted[i].content)

\* C12: on an empty history get_conversation_summary succeeds with the fixed
\* message and exchanges = 0, posts nothing and leaves the history empty
C12_EmptySummary ==
    [][ (last'.op = "summary" /\ conversation_history = << >>) =>
        /\ last'.success
        /\ last'.message = NoHistoryMessage
        /\ last'.exchanges = 0
        /\ last'.calls = 0
        /\ last'.posted = << >>
        /\ conversation_history' = << >> ]_vars

\* the summary of a session that was used and then cleared
C12_Witness ==
    /\ last.op = "summary" /\ last.message = NoHistoryMessage
    /\ conversation_history = << >>
    /\ now >= 1

\* the prompt p holds, for every exchange of h, its label followed by the
\* user text
MentionsEveryExchange(p, h) ==
    \A i \in DOMAIN h :
        \E k \in DOMAIN p :
            /\ p[k] = ExchangeLabel(i)
            /\ SubSeq(p, k + 1, k + 3) = << NL, UserLabel, SP >>
            /\ SubSeq(p, k + 4, k + 3 + Len(h[i].user)) = h[i].user

\* C13 as stated: on a non-empty history get_conversation_summary formats
\* every retained exchange into one prompt, posts it exactly once, returns the
\* content of the answer as the summary and leaves the history as it was
C13_SummaryPostedOnce ==
    [][ (last'.op = "summary" /\ conversation_history # << >>) =>
        /\ last'.built = << Message("user", SummaryPrompt(conversation_history)) >>
        /\ MentionsEveryExchange(last'.built[1].content, conversation_history)
        /\ last'.calls = 1
        /\ last'.outcome = "ok" =>
              /\ last'.success
              /\ last'.summary = ResponseContent(enable_content_filter, last'.raw)
        /\ last'.exchanges = Len(conversation_history)
        /\ conversation_history' = conversation_history ]_vars

\* C13, amended: the prompt is posted exactly once unless the content filter
\* is enabled and the prompt fails is_safe_content; then nothing is posted and
\* the call fails. A posted prompt has gone through filter_content when the
\* filter is enabled; an answer with content is returned as the summary, any
\* other outcome gives a failure with the default summary text
C13_SummaryPostedOnceOrGate ==
    [][ (last'.op = "summary" /\ conversation_history # << >>) =>
        LET p == SummaryPrompt(conversation_history) IN
        /\ last'.built = << Message("user", p) >>
        /\ MentionsEveryExchange(last'.built[1].content, conversation_history)
        /\ IF enable_content_filter /\ ~is_safe_content(p)
           THEN /\ last'.calls = 0
                /\ last'.posted = << >>
                /\ ~last'.success
                /\ last'.error = ErrSafety
                /\ last'.summary = << NoSummaryTok >>
           ELSE /\ last'.calls = 1
                /\ last'.posted =
                      << Message("user", IF enable_content_filter
                                         THEN filter_content(p) ELSE p) >>
                /\ last'.outcome = "ok" =>
                      /\ last'.success
                      /\ last'.summary = ResponseContent(enable_content_filter, last'.raw)
                /\ last'.outcome # "ok" =>
                      /\ ~last'.success
                      /\ last'.summary = << NoSummaryTok >>
        /\ last'.exchanges = Len(conversation_history)
        /\ conversation_history' = conversation_history ]_vars

\* the summary of three exchanges was posted and answered
C13_Witness ==
    /\ last.op = "summary" /\ last.calls = 1 /\ last.outcome = "ok"
    /\ last.success /\ last.summary = << "audio" >>
    /\ last.exchanges = 3 /\ Len(conversation_history) = 3

\* C14: clear_conversation and start_conversation leave the history empty
\* whatever it was, and change nothing else of the service; clear_conversation
\* reports the length the history had; the same operation applied again
\* leaves the state the first application left
C14_ClearAndStartEmpty ==
    [][ last'.op \in {"clear", "start"} =>
        /\ conversation_history' = << >>
        /\ max_history' = max_history
        /\ enable_content_filter' = enable_content_filter
        /\ last'.success
        /\ last'.op = "clear" => last'.removed = Len(conversation_history)
        /\ last.op = last'.op =>
              << conversation_history', max_history', enable_content_filter' >>
                 = << conversation_history, max_history, enable_content_filter >>
      ]_vars

\* clear_conversation has removed the exchanges of a session
C14_Witness ==
    /\ last.op = "clear" /\ last.removed >= 1
    /\ conversation_history = << >>

\* C15: with max_history = 0 the history is empty after every call of
\* _update_conversation_history
C15_ZeroHistoryStaysEmpty ==
    [][ (max_history = 0 /\ now' = now + 1) => conversation_history' = << >> ]_vars

\* C16: no operation changes an exchange that is retained. A step leaves the
\* history as it is, or empties it (clear_conversation, start_conversation),
\* or is a successful turn, which keeps the exchanges in order and unchanged
\* but for the oldest one of a full history, and appends the new one
C16_ExchangesImmutable ==
    [][ LET h == conversation_history
            h2 == conversation_history'
        IN \/ h2 = h
           \/ h2 = << >> /\ last'.op \in {"clear", "start"}
           \/ /\ last'.op = "send" /\ last'.success
              /\ h2 # << >>
              /\ h2[Len(h2)] = Exchange(last'.user_message, last'.ai_response, now)
              /\ \E d \in {0, 1} :
                    /\ d = 1 => Len(h) = max_history
                    /\ Len(h2) = Len(h) + 1 - d
                    /\ \A i \in 1..(Len(h2) - 1) : h2[i] = h[i + d] ]_vars

\* a turn whose request replayed the first exchange with its user text
\* rewritten by the filter, the exchange itself being as it was recorded
C16_Witness ==
    /\ last.op = "send" /\ last.success /\ enable_content_filter
    /\ Len(conversation_history) = 2
    /\ last.built[2].content = conversation_history[1].user
    /\ last.posted[2].content # conversation_history[1].user
    /\ conversation_history[1].timestamp = 0

\* C17: validate_question returns for every text; is_valid is what
\* is_safe_content says of the text, and an invalid result carries the
\* inappropriate-content reason and no modified question
C17_ValidIffSafe ==
    last.op = "validate_question" =>
        /\ last.is_valid = is_safe_content(last.user_message)
        /\ last.reason \in {ReasonInappropriate, ReasonOffTopic, ReasonPassed}
        /\ ~last.is_valid =>
              /\ last.reason = ReasonInappropriate
              /\ last.processed = None

\* an off-topic but safe question was validated
C17_Witness ==
    /\ last.op = "validate_question" /\ last.user_message = Weather
    /\ last.is_valid

\* C18: is_safe_content is False exactly for a text that is not blank and
\* matches an unsafe pattern, or is longer than 5000 characters, or has more
\* than 10 words of which less than 30% are distinct
C18_SafeDefinition ==
    last.op = "is_safe_content" =>
        LET c == last.user_message
            blank == \A i \in DOMAIN c : IsSpace(c[i])
        IN last.verdict = ~( /\ ~blank
                            /\ \/ PatternSearch(c)
                               \/ TextLen(c) > 5000
                               \/ /\ WordCount(c) > 10
                                  /\ 10 * Cardinality(WordSet(c)) < 3 * WordCount(c) )

\* a whitespace-only text of more than 5000 characters was found safe
C18_Witness ==
    /\ last.op = "is_safe_content" /\ last.user_message = << Spaces5001 >>
    /\ last.verdict

\* C19: a text of less than 200 characters with an allowed topic among its
\* words is on-topic; a text of 200 characters or more is on-topic exactly
\* when two distinct allowed topics are among its words
C19_TopicThresholds ==
    last.op = "_is_on_topic" =>
        LET c == last.user_message
            topics == Cardinality(TextReWords(c) \cap allowed_topics)
        IN /\ (TextLen(c) < 200 /\ topics >= 1) => last.verdict
           /\ TextLen(c) >= 200 => (last.verdict <=> topics >= 2)

\* a text of exactly 200 characters with one allowed topic was found off-topic
C19_Witness ==
    /\ last.op = "_is_on_topic" /\ last.user_message = << Pad193, NL2, "audio" >>
    /\ ~last.verdict

\* c has at most 3 distinct words and one of them is an acknowledgment
Acknowledgment(c) ==
    /\ Cardinality(TextReWords(c)) <= 3
    /\ TextReWords(c) \cap {"ok", "yes", "no", "hello", "thanks"} # {}

\* C20 as stated: every text of at most 3 distinct words, one of them an
\* acknowledgment, is on-topic
C20_AcknowledgmentOnTopic ==
    (last.op = "_is_on_topic" /\ Acknowledgment(last.user_message)) => last.verdict

\* C20, amended: every such text of less than 200 characters is on-topic
C20_ShortAcknowledgmentOnTopic ==
    ( /\ last.op = "_is_on_topic"
      /\ Acknowledgment(last.user_message)
      /\ TextLen(last.user_message) < 200 ) => last.verdict

\* an acknowledgment without any allowed topic was found on-topic
C20_Witness ==
    /\ last.op = "_is_on_topic"
    /\ last.user_message = << "hello", SP, "weather", SP, "you" >>
    /\ last.verdict

\* C21: the text "thank you", two words and no allowed topic, is on-topic
C21_ThankYouOnTopic ==
    ( /\ last.op = "_is_on_topic"
      /\ last.user_message = << "thank", SP, "you" >> ) => last.verdict

\* C22: _remove_sensitive_data keeps a URL when its host is an allow-listed
\* site and replaces every other URL by [URL_REMOVED]
C22_UrlAllowList ==
    last.op = "_remove_sensitive_data" =>
        /\ Len(last.processed) = Len(last.user_message)
        /\ \A i \in DOMAIN last.user_message :
              last.user_message[i] \in (UrlToksAllowedPrefix \cup UrlToksOther) =>
                 last.processed[i] =
                    IF UrlHost(last.user_message[i])
                          \in {"wikipedia.org", "github.com", "docs.python.org",
                               "librosa.org"}
                    THEN last.user_message[i] ELSE UrlRemoved

\* C23: when the content filter is enabled and the content of a message
\* fails the safety check, chat_completion raises ValueError to its caller
C23_RejectionRaised ==
    ( /\ last.op = "chat_completion"
      /\ enable_content_filter
      /\ \E i \in DOMAIN last.built : ~is_safe_content(last.built[i].content) ) =>
        last.raised = "ValueError"

\* C24: send_message returns for every user text, context data, history and
\* transport outcome: no exception leaves it, the result has a boolean
\* success, and a result with success = False carries an error
C24_SendNeverRaises ==
    last.op = "send" =>
        /\ last.raised = "none"
        /\ last.success \in BOOLEAN
        /\ ~last.success => last.error # ""

\* validate_question raised in a session with history, and send_message
\* returned the failure
C24_Witness ==
    /\ last.op = "send" /\ last.user_message = None
    /\ ~last.success /\ last.error = ErrNoneLower
    /\ Len(conversation_history) = 1

\* C25: with two ChatService instances, an operation on one instance leaves
\* the conversation_history of the other as it was, and no operation changes
\* the patterns or the topic vocabulary of a ContentFilter
C25_SessionsIsolated ==
    [][ \A x \in Instances :
          /\ last'.instance # x => HistoryOf(services', x) = HistoryOf(services, x)
          /\ services'.allowed_topics[x] = allowed_topics
          /\ services'.inappropriate_patterns[x] = << UnsafeWords, UnsafePhrases >>
      ]_vars

\* both instances hold exchanges, recorded in turn, that differ
C25_Witness ==
    /\ Len(HistoryOf(services, "a")) = 2
    /\ Len(HistoryOf(services, "b")) = 1
    /\ HistoryOf(services, "a")[1].timestamp = 0
    /\ HistoryOf(services, "b")[1].timestamp = 1
    /\ HistoryOf(services, "a")[2].timestamp = 2

\* C26: the name sanitize_filename returns has at most max_length characters
C26_LengthBounded ==
    last.op = "sanitize_filename" => Len(last.processed) <= last.max_length

\* the content filter is enabled and a message replayed from the last 5
\* exchanges of h fails is_safe_content
ReplayBlocked(h) ==
    /\ enable_content_filter
    /\ \E i \in DOMAIN h :
          /\ i > Len(h) - 5
          /\ ~is_safe_content(h[i].user) \/ ~is_safe_content(h[i].assistant)

\* send_message has been rejected before the post because of a replayed
\* message
RejectedByReplay ==
    /\ last.op = "send" /\ enable_content_filter
    /\ last.built # << >> /\ last.calls = 0 /\ last.error = ErrSafety
    /\ \E k \in 2..(Len(last.built) - 1) : ~is_safe_content(last.built[k].content)

C28_ReplayRefiltered ==
    [][ (last'.op = "send" /\ enable_content_filter /\ last'.calls = 1) =>
        LET h == conversation_history
            n == Len(h)
            m == IF n < 5 THEN n ELSE 5
            p == last'.posted
        IN /\ Len(p) = 2 * m + 2
           /\ \A k \in 1..m :
                 /\ p[2 * k] = Message("user", filter_content(h[n - m + k].user))
                 /\ p[2 * k + 1] =
                       Message("assistant", filter_content(h[n - m + k].assistant))
                 /\ ~_is_on_topic(_clean_formatting(_remove_sensitive_data(h[n - m + k].user)))
                       => p[2 * k].content =
                             _clean_formatting(_remove_sensitive_data(h[n - m + k].user))
                                \o << NL2, NoteTok >>
           /\ \A i \in DOMAIN conversation_history' :
                 i < Len(conversation_history') =>
                    \E j \in DOMAIN h : conversation_history'[i] = h[j]
           /\ ~last'.success => conversation_history' = h ]_vars

\* the recorded question "weather" was posted with the note while the
\* exchange holds "weather"
C28_Witness ==
    /\ last.op = "send" /\ last.success /\ enable_content_filter
    /\ Len(conversation_history) = 3
    /\ conversation_history[1].user = Weather
    /\ last.built[2] = Message("user", Weather)
    /\ last.posted[2] = Message("user", Weather \o << NL2, NoteTok >>)
    /\ last.posted[3] = Message("assistant", conversation_history[1].assistant)

\* C30: analyze_multiple_files returns with successful_analyses +
\* failed_analyses = total_files = len(file_paths), with one entry of errors
\* for each failed file, in the order of the list, and with success true
\* exactly when successful_analyses > 0
C30_BatchCounts ==
    last.op = "analyze_multiple_files" =>
        LET b == last.batch
            failed == SelectSeq(last.files, LAMBDA f : f.outcome # "ok")
        IN /\ b.total_files = Len(last.files)
           /\ b.successful_analyses + b.failed_analyses = b.total_files
           /\ b.failed_analyses = Len(failed)
           /\ Len(b.errors) = Len(failed)
           /\ \A i \in DOMAIN failed : b.errors[i].file = failed[i].path
           /\ b.success <=> b.successful_analyses > 0

\* three files, one analysed, one failed, one for which the loop body raised
C30_Witness ==
    /\ last.op = "analyze_multiple_files"
    /\ Len(last.files) = 3
    /\ last.batch.successful_analyses = 1
    /\ last.batch.failed_analyses = 2
    /\ last.batch.success
    /\ \E i \in 1..3 : last.files[i].outcome = "raises"
    /\ last.files[1].path = last.files[3].path

\* C29: when temperature or max_tokens is passed to chat_completion (not
\* None), the payload posted carries the value passed, 0 included
C29_ExplicitOverride ==
    (last.op = "chat_completion" /\ last.calls = 1) =>
        /\ last.temperature # "None" => last.payload.temperature = last.temperature
        /\ last.max_tokens # "None" => last.payload.max_tokens = last.max_tokens

====
